---- MODULE Spec2Model ----
(***************************************************************************)
(* Model of the environment-variable shim of the interpreter               *)
(* (src/tools/miri/src/shims/env.rs) and of the derive macros of the       *)
(* stable hash (compiler/rustc_macros/src/hash_stable.rs).                 *)
(*                                                                         *)
(* An OsStr is a sequence of code points.  Guest memory is a sequence of   *)
(* allocations; an allocation id is its index and is never reused.  A      *)
(* pointer is an allocation id and a byte offset; Null has id 0.           *)
(***************************************************************************)
EXTENDS Integers, Sequences, FiniteSets, TLC

VARIABLES machine, cwd, map, environ, mem, phase, ret, derive

vars == <<machine, cwd, map, environ, mem, phase, ret, derive>>

---------------------------------------------------------------------------
(* Bounds of the model. *)

\* allocations made in one run (AllocIds are never reused)
MaxAllocs == 7
\* entries of config.env
MaxEnv == 2
\* entries of config.forwarded_env_vars
MaxForward == 1
\* entries of config.set_env_vars
MaxSetEnv == 1
\* allocations made in one run on a Windows target
MaxWinAllocs == 2
\* largest buffer size (in characters) a guest passes to a Windows getter
MaxBuf == 3
\* fields of a struct given to the derive macros
MaxFields == 2
\* variants of an enum given to the derive macros
MaxVariants == 2

---------------------------------------------------------------------------
(* Strings. *)

\* the '=' that separates name and value
Eq == 61

SeqsUpTo(S, n) == UNION {[1..k -> S] : k \in 0..n}

RECURSIVE Flatten(_)
Flatten(ss) == IF ss = <<>> THEN <<>> ELSE Head(ss) \o Flatten(Tail(ss))

\* encoded length of one code point in the host's OsStr representation (UTF-8)
Utf8Len(c) == IF c < 128 THEN 1 ELSE IF c < 2048 THEN 2 ELSE IF c < 65536 THEN 3 ELSE 4

Utf8(c) ==
    IF c < 128 THEN <<c>>
    ELSE IF c < 2048 THEN <<192 + (c \div 64), 128 + (c % 64)>>
    ELSE IF c < 65536
         THEN <<224 + (c \div 4096), 128 + ((c \div 64) % 64), 128 + (c % 64)>>
         ELSE <<240 + (c \div 262144), 128 + ((c \div 4096) % 64),
                128 + ((c \div 64) % 64), 128 + (c % 64)>>

Utf16(c) ==
    IF c < 65536 THEN <<c>>
    ELSE <<55296 + ((c - 65536) \div 1024), 56320 + ((c - 65536) % 1024)>>

\* the bytes of a C string holding s, terminator included
ToCStr(s) == Flatten([i \in 1..Len(s) |-> Utf8(s[i])]) \o <<0>>

\* the 16-bit units of a wide string holding s, terminator included
ToWideStr(s) == Flatten([i \in 1..Len(s) |-> Utf16(s[i])]) \o <<0>>

\* OsStr::len(): the length in bytes of the host representation
RECURSIVE OsStrLen(_)
OsStrLen(s) == IF s = <<>> THEN 0 ELSE Utf8Len(Head(s)) + OsStrLen(Tail(s))

\* name.is_empty()
is_empty(s) == s = <<>>

\* mutant: the check for '=' is left out
ContainsEq_never(s) == FALSE

\* name.to_string_lossy().contains('=')
ContainsEq(s) == \E i \in 1..Len(s) : s[i] = Eq

\* a name setenv, unsetenv and SetEnvironmentVariableW accept
ValidName(s) == ~is_empty(s) /\ ~ContainsEq(s)

---------------------------------------------------------------------------
(* Guest memory. *)

Null == [alloc |-> 0, off |-> 0]

ptr_is_null(p) == p.alloc = 0

\* bytes per pointer of the target
PtrSize == 8

Allocation(kind, site, unit, data) ==
    [kind |-> kind, site |-> site, live |-> TRUE, unit |-> unit, data |-> data]

\* a new allocation gets the next id
allocate(m, a) == [mem |-> Append(m, a), ptr |-> [alloc |-> Len(m) + 1, off |-> 0]]

\* deallocate_ptr succeeds on the base pointer of a live allocation of the given kind
can_deallocate(m, p, kind) ==
    /\ p.alloc \in 1..Len(m)
    /\ p.off = 0
    /\ m[p.alloc].live
    /\ m[p.alloc].kind = kind

deallocate_ptr(m, p) == [m EXCEPT ![p.alloc].live = FALSE]

\* the units of the string at p up to (not including) its terminator;
\* <<-1>> when the read leaves the allocation or the allocation is dead
ReadUnits(m, p) ==
    IF p.alloc \notin 1..Len(m) THEN <<-1>>
    ELSE LET a == m[p.alloc]
             first == (p.off \div a.unit) + 1
         IN IF ~a.live \/ p.off % a.unit /= 0 \/ first > Len(a.data) THEN <<-1>>
            ELSE LET ends == {i \in first..Len(a.data) : a.data[i] = 0}
                 IN IF ends = {} THEN <<-1>>
                    ELSE LET e == CHOOSE i \in ends : \A j \in ends : i <= j
                         IN SubSeq(a.data, first, e - 1)

---------------------------------------------------------------------------
(* Inputs. *)

\* a guest string argument: a null pointer or a pointer to the string s
NullStr == [null |-> TRUE, s |-> <<>>]
Str(s) == [null |-> FALSE, s |-> s]

\* names a guest passes: "", "a", "e-acute", "a="
GuestNames == {<<>>, <<97>>, <<233>>, <<97, 61>>}
\* values a guest passes: "a", "=e-acute"
GuestValues == {<<97>>, <<61, 233>>}

NameArgs == {NullStr} \cup {Str(s) : s \in GuestNames}
\* names a guest looks up
LookupArgs == {NullStr} \cup {Str(s) : s \in {n \in GuestNames : ValidName(n)}}
ValueArgs == {NullStr} \cup {Str(s) : s \in GuestValues}

\* entries of the host environment: a name may repeat with another value
HostEntries == {<<<<97>>, <<97>>>>, <<<<97>>, <<>>>>, <<<<233>>, <<97>>>>}
ForwardNames == {<<97>>}
\* overrides (set_env_vars)
Overrides == {<<<<97>>, <<61, 233>>>>, <<<<233>>, <<>>>>}

Targets == {"linux", "windows", "wasi"}

target_os_is_unix == machine.target = "linux"

\* what the interpreter is run with: the target and the isolation policy
\* the ways a rejected operation is reported
RejectOpWith == {"Abort", "NoWarning", "Warning", "WarningWithoutBacktrace"}

\* the machine's target and isolation policy; reject_with is the argument of
\* IsolatedOp::Reject, "none" under IsolatedOp::Allow
Machines ==
    {m \in [target : Targets, isolated_op : {"Allow", "Reject"},
            reject_with : RejectOpWith \cup {"none"}] :
        (m.isolated_op = "Allow") <=> (m.reject_with = "none")}

UniqueNames(s) == \A i, j \in 1..Len(s) : s[i][1] = s[j][1] => i = j

\* what init reads: machine.communicate() and three fields of MiriConfig
Configs ==
    [communicate : BOOLEAN,
     forwarded_env_vars : SeqsUpTo(ForwardNames, MaxForward),
     env : SeqsUpTo(HostEntries, MaxEnv),
     set_env_vars : {s \in SeqsUpTo(Overrides, MaxSetEnv) : UniqueNames(s)}]

NoConfig == [communicate |-> FALSE, forwarded_env_vars |-> <<>>, env |-> <<>>, set_env_vars |-> <<>>]

---------------------------------------------------------------------------
(* What the last operation returned to the guest or to the interpreter:    *)
(* its arguments, its return value (val, ptr), what it wrote to the guest  *)
(* buffer, the code it passed to set_last_error ("" when it did not call   *)
(* it), its accesses to the environ cell, the error that halted it, and    *)
(* its access to the host's working directory ("", "read" or "write").     *)
(* For GetUserProfileDirectoryW: the token, the host's home directory      *)
(* (name), the value behind the size pointer (size, -1 for a null          *)
(* pointer) and the value written back through it (size_out, -1 for none). *)

NoRet ==
    [op |-> "none", config |-> NoConfig, name |-> NullStr, value |-> NullStr, size |-> 0,
     val |-> 0, ptr |-> Null, wrote |-> FALSE, out |-> <<>>,
     last_error |-> "", cell |-> <<>>, halt |-> "", host |-> "",
     token |-> 0, size_out |-> -1]

---------------------------------------------------------------------------
(* The environment map and the environ static. *)

\* the order in which the map is iterated: a function of the map's content
RECURSIVE SetToSeq(_)
SetToSeq(S) ==
    IF S = {} THEN <<>>
    ELSE LET x == CHOOSE y \in S : TRUE IN <<x>> \o SetToSeq(S \ {x})

MapKeys(mp) == SetToSeq(DOMAIN mp)
MapValues(mp) == LET ks == MapKeys(mp) IN [i \in 1..Len(ks) |-> mp[ks[i]]]

\* map.insert(name, ptr): the new map and the pointer it displaced, if any
MapInsert(mp, name, p) == [x \in (DOMAIN mp) \cup {name} |-> IF x = name THEN p ELSE mp[x]]
\* mutant: the entry stays in the map
MapRemove_keep(mp, name) == mp

MapRemove(mp, name) == [x \in (DOMAIN mp) \ {name} |-> mp[x]]
EmptyMap == [x \in {} |-> Null]

alloc_env_var_as_c_str(name, value, m) ==
    allocate(m, Allocation("Runtime", "payload", 1, ToCStr(name \o <<Eq>> \o value)))

alloc_env_var_as_wide_str(name, value, m) ==
    allocate(m, Allocation("Runtime", "payload", 2, ToWideStr(name \o <<Eq>> \o value)))

\* st = [ok, map, mem]; the payload a replaced entry pointed to is not released
add_env_var(st, name, value) ==
    IF ~st.ok THEN st
    ELSE IF target_os_is_unix
         THEN LET a == alloc_env_var_as_c_str(name, value, st.mem)
              IN [ok |-> TRUE, map |-> MapInsert(st.map, name, a.ptr), mem |-> a.mem]
         ELSE IF machine.target = "windows"
              THEN LET a == alloc_env_var_as_wide_str(name, value, st.mem)
                   IN [ok |-> TRUE, map |-> MapInsert(st.map, name, a.ptr), mem |-> a.mem]
              ELSE [ok |-> FALSE, map |-> st.map, mem |-> st.mem]

\* the cell's content
read_pointer(m, cell) == m[cell.alloc].data[1]
write_pointer(m, cell, p) == [m EXCEPT ![cell.alloc].data = <<p>>]

\* mutant: the trailing null pointer is left out
environ_vars_no_null(mp) == MapValues(mp)

\* the pointers of the new environ array: the map's values and the trailing null
environ_vars(mp) == MapValues(mp) \o <<Null>>

\* mutant: the old array is not released
update_environ_leak(m, mp, cell) ==
    LET a == allocate(m, Allocation("Runtime", "environ", PtrSize, environ_vars(mp)))
    IN [ok |-> TRUE, mem |-> write_pointer(a.mem, cell, a.ptr)]

\* releases the old array, builds the new one and stores it in the cell
update_environ(m, mp, cell) ==
    LET old_vars_ptr == read_pointer(m, cell)
        freed == IF ptr_is_null(old_vars_ptr) THEN m ELSE deallocate_ptr(m, old_vars_ptr)
        a == allocate(freed, Allocation("Runtime", "environ", PtrSize, environ_vars(mp)))
    IN IF ~ptr_is_null(old_vars_ptr) /\ ~can_deallocate(m, old_vars_ptr, "Runtime")
       THEN [ok |-> FALSE, mem |-> m]
       ELSE [ok |-> TRUE, mem |-> write_pointer(a.mem, cell, a.ptr)]

\* mutant: every host entry is forwarded
forward_all(config, name) == TRUE

\* whether init forwards the host entry called name
forward(config, name) ==
    \/ config.communicate
    \/ \E i \in 1..Len(config.forwarded_env_vars) : config.forwarded_env_vars[i] = name

\* the first loop of init: forwards the host entries
RECURSIVE ForwardEnv(_, _, _)
ForwardEnv(st, config, env) ==
    IF env = <<>> THEN st
    ELSE LET name == Head(env)[1]
             value == Head(env)[2]
         IN ForwardEnv(IF forward(config, name) THEN add_env_var(st, name, value) ELSE st,
                       config, Tail(env))

\* mutant: an override does not replace an entry that is already in the map
RECURSIVE SetEnvVars_keep(_, _)
SetEnvVars_keep(st, sets) ==
    IF sets = <<>> THEN st
    ELSE SetEnvVars_keep(IF Head(sets)[1] \in DOMAIN st.map THEN st
                         ELSE add_env_var(st, Head(sets)[1], Head(sets)[2]), Tail(sets))

\* the second loop of init: installs the overrides
RECURSIVE SetEnvVars(_, _)
SetEnvVars(st, sets) ==
    IF sets = <<>> THEN st
    ELSE SetEnvVars(add_env_var(st, Head(sets)[1], Head(sets)[2]), Tail(sets))

EnvVarsInit(config) ==
    /\ phase = "new"
    /\ LET st0 == [ok |-> TRUE, map |-> map, mem |-> mem]
           st1 == IF config.communicate \/ config.forwarded_env_vars /= <<>>
                  THEN ForwardEnv(st0, config, config.env) ELSE st0
           st2 == SetEnvVars(st1, config.set_env_vars)
           place == allocate(st2.mem, Allocation("ExternStatic", "cell", PtrSize, <<Null>>))
           upd == update_environ(place.mem, st2.map, place.ptr)
       IN IF ~st2.ok
          THEN /\ phase' = "halted"
               /\ map' = st2.map
               /\ mem' = st2.mem
               /\ environ' = environ
               /\ ret' = [NoRet EXCEPT !.op = "init", !.config = config, !.halt = "unsup"]
          ELSE IF target_os_is_unix
               THEN /\ phase' = IF upd.ok THEN "running" ELSE "halted"
                    /\ map' = st2.map
                    /\ mem' = upd.mem
                    /\ environ' = place.ptr
                    /\ ret' = [NoRet EXCEPT !.op = "init", !.config = config, !.cell = <<"W", "R", "W">>,
                                            !.halt = IF upd.ok THEN "" ELSE "ub"]
               ELSE /\ phase' = "running"
                    /\ map' = st2.map
                    /\ mem' = st2.mem
                    /\ environ' = environ
                    /\ ret' = [NoRet EXCEPT !.op = "init", !.config = config]
    /\ UNCHANGED <<derive, machine, cwd>>

\* releases the payloads the map points to, one after the other
RECURSIVE DeallocateAll(_, _)
DeallocateAll(st, ptrs) ==
    IF ptrs = <<>> \/ ~st.ok THEN st
    ELSE IF can_deallocate(st.mem, Head(ptrs), "Runtime")
         THEN DeallocateAll([ok |-> TRUE, mem |-> deallocate_ptr(st.mem, Head(ptrs))], Tail(ptrs))
         ELSE [ok |-> FALSE, mem |-> st.mem]

cleanup ==
    /\ phase = "running"
    /\ LET st == DeallocateAll([ok |-> TRUE, mem |-> mem], MapValues(map))
           old_vars_ptr == read_pointer(st.mem, environ)
           okEnv == can_deallocate(st.mem, old_vars_ptr, "Runtime")
       IN /\ map' = EmptyMap
          /\ IF ~st.ok
             THEN /\ mem' = st.mem
                  /\ phase' = "halted"
                  /\ ret' = [NoRet EXCEPT !.op = "cleanup", !.halt = "ub"]
             ELSE IF target_os_is_unix
                  THEN /\ mem' = IF okEnv THEN deallocate_ptr(st.mem, old_vars_ptr) ELSE st.mem
                       /\ phase' = IF okEnv THEN "cleaned" ELSE "halted"
                       /\ ret' = [NoRet EXCEPT !.op = "cleanup", !.cell = <<"R">>,
                                               !.halt = IF okEnv THEN "" ELSE "ub"]
                  ELSE /\ mem' = st.mem
                       /\ phase' = "cleaned"
                       /\ ret' = [NoRet EXCEPT !.op = "cleanup"]
    /\ UNCHANGED <<derive, machine, cwd, environ>>

---------------------------------------------------------------------------
(* Unix operations. *)

\* read_os_str_from_c_str on a null pointer is an error of the interpreted program
Halt(op, name, value, kind) ==
    /\ phase' = "halted"
    /\ ret' = [NoRet EXCEPT !.op = op, !.name = name, !.value = value, !.halt = kind]

\* mutant: the name is measured in characters, not in bytes
value_offset_chars(name) == Len(name) + 1

\* the offset that strips the "{name}=" part of a C string payload
value_offset(name) == OsStrLen(name) + 1

\* the offset, in bytes, that strips the "{name}=" part of a wide payload
name_offset_bytes(name) == (OsStrLen(name) + 1) * 2

\* mutant: getenv does not read the environ cell
read_environ_skipped == <<>>

\* read_environ: one read of the environ cell, its result dropped
read_environ == <<"R">>

getenv(name) ==
    /\ phase = "running"
    /\ target_os_is_unix
    /\ IF name.null
       THEN Halt("getenv", name, NullStr, "ub")
       ELSE /\ phase' = phase
            /\ ret' = [NoRet EXCEPT
                         !.op = "getenv", !.name = name, !.cell = read_environ,
                         !.ptr = IF name.s \in DOMAIN map
                                 THEN [alloc |-> map[name.s].alloc,
                                       off |-> map[name.s].off + value_offset(name.s)]
                                 ELSE Null]
    /\ UNCHANGED <<derive, machine, cwd, map, environ, mem>>

setenv(name, value) ==
    /\ phase = "running"
    /\ target_os_is_unix
    /\ Len(mem) + 2 <= MaxAllocs
    /\ IF ~name.null /\ ~is_empty(name.s) /\ ~ContainsEq(name.s)
       THEN IF value.null
            THEN /\ Halt("setenv", name, value, "ub")
                 /\ UNCHANGED <<map, mem>>
            ELSE LET a == alloc_env_var_as_c_str(name.s, value.s, mem)
                     had == name.s \in DOMAIN map
                     okOld == ~had \/ can_deallocate(a.mem, map[name.s], "Runtime")
                     m1 == IF had /\ okOld THEN deallocate_ptr(a.mem, map[name.s]) ELSE a.mem
                     newmap == MapInsert(map, name.s, a.ptr)
                     upd == update_environ(m1, newmap, environ)
                 IN /\ map' = newmap
                    /\ mem' = IF okOld THEN upd.mem ELSE m1
                    /\ IF okOld /\ upd.ok
                       THEN /\ phase' = phase
                            /\ ret' = [NoRet EXCEPT !.op = "setenv", !.name = name,
                                         !.value = value, !.val = 0, !.cell = <<"R", "W">>]
                       ELSE Halt("setenv", name, value, "ub")
       ELSE /\ phase' = phase
            /\ ret' = [NoRet EXCEPT !.last_error = "EINVAL", !.op = "setenv", !.name = name, !.value = value,
                                    !.val = -1]
            /\ UNCHANGED <<map, mem>>
    /\ UNCHANGED <<derive, machine, cwd, environ>>

unsetenv(name) ==
    /\ phase = "running"
    /\ target_os_is_unix
    /\ Len(mem) + 1 <= MaxAllocs
    /\ IF ~name.null /\ ~is_empty(name.s) /\ ~ContainsEq(name.s)
       THEN LET had == name.s \in DOMAIN map
                okOld == ~had \/ can_deallocate(mem, map[name.s], "Runtime")
                m1 == IF had /\ okOld THEN deallocate_ptr(mem, map[name.s]) ELSE mem
                newmap == MapRemove(map, name.s)
                upd == update_environ(m1, newmap, environ)
            IN /\ map' = newmap
               /\ mem' = IF okOld THEN upd.mem ELSE m1
               /\ IF okOld /\ upd.ok
                  THEN /\ phase' = phase
                       /\ ret' = [NoRet EXCEPT !.op = "unsetenv", !.name = name,
                                    !.val = 0, !.cell = <<"R", "W">>]
                  ELSE Halt("unsetenv", name, NullStr, "ub")
       ELSE /\ phase' = phase
            /\ ret' = [NoRet EXCEPT !.last_error = "EINVAL", !.op = "unsetenv", !.name = name, !.val = -1]
            /\ UNCHANGED <<map, mem>>
    /\ UNCHANGED <<derive, machine, cwd, environ>>

---------------------------------------------------------------------------
(* Windows operations. *)

\* the OsString a sequence of 16-bit units decodes to
RECURSIVE FromWideStr(_)
FromWideStr(u) ==
    IF u = <<>> THEN <<>>
    ELSE IF Len(u) >= 2 /\ Head(u) >= 55296 /\ Head(u) < 56320
         THEN <<65536 + (Head(u) - 55296) * 1024 + (u[2] - 56320)>> \o FromWideStr(Tail(Tail(u)))
         ELSE <<Head(u)>> \o FromWideStr(Tail(u))

\* write_os_str_to_wide_str without truncation: whether the string and its
\* terminator fit in size units, and the length with the terminator
write_os_str_to_wide_str(s, size) ==
    LET units == ToWideStr(s)
    IN [success |-> Len(units) <= size, len |-> Len(units), units |-> units]

windows_check_buffer_size(w) == IF w.success THEN w.len - 1 ELSE w.len

BufSizes == 0..MaxBuf

GetEnvironmentVariableW(name, buf_size) ==
    /\ phase = "running"
    /\ machine.target = "windows"
    /\ IF name.null
       THEN /\ Halt("GetEnvironmentVariableW", name, NullStr, "ub")
       ELSE IF name.s \in DOMAIN map
            THEN LET var_ptr == [alloc |-> map[name.s].alloc,
                                 off |-> map[name.s].off + name_offset_bytes(name.s)]
                     units == ReadUnits(mem, var_ptr)
                     w == write_os_str_to_wide_str(FromWideStr(units), buf_size)
                 IN IF units = <<-1>>
                    THEN /\ Halt("GetEnvironmentVariableW", name, NullStr, "ub")
                    ELSE /\ phase' = phase
                         /\ ret' = [NoRet EXCEPT
                                      !.op = "GetEnvironmentVariableW", !.name = name,
                                      !.size = buf_size,
                                      !.val = windows_check_buffer_size(w),
                                      !.wrote = w.success,
                                      !.out = IF w.success THEN w.units ELSE <<>>]
            ELSE /\ phase' = phase
                 /\ ret' = [NoRet EXCEPT !.last_error = "ERROR_ENVVAR_NOT_FOUND", !.op = "GetEnvironmentVariableW", !.name = name,
                                         !.size = buf_size, !.val = 0]
    /\ UNCHANGED <<derive, machine, cwd, map, environ, mem>>

SetEnvironmentVariableW(name, value) ==
    /\ phase = "running"
    /\ machine.target = "windows"
    /\ IF name.null
       THEN /\ Halt("SetEnvironmentVariableW", name, value, "ub")
            /\ UNCHANGED <<map, mem>>
       ELSE IF is_empty(name.s) \/ ContainsEq(name.s)
            THEN /\ Halt("SetEnvironmentVariableW", name, value, "unsup")
                 /\ UNCHANGED <<map, mem>>
            ELSE IF value.null
                 THEN LET had == name.s \in DOMAIN map
                          okOld == ~had \/ can_deallocate(mem, map[name.s], "Runtime")
                      IN /\ map' = MapRemove(map, name.s)
                         /\ mem' = IF had /\ okOld THEN deallocate_ptr(mem, map[name.s]) ELSE mem
                         /\ IF okOld
                            THEN /\ phase' = phase
                                 /\ ret' = [NoRet EXCEPT !.op = "SetEnvironmentVariableW",
                                              !.name = name, !.value = value, !.val = 1]
                            ELSE Halt("SetEnvironmentVariableW", name, value, "ub")
                 ELSE /\ Len(mem) + 1 <= MaxWinAllocs
                      /\ LET a == alloc_env_var_as_wide_str(name.s, value.s, mem)
                             had == name.s \in DOMAIN map
                             okOld == ~had \/ can_deallocate(a.mem, map[name.s], "Runtime")
                         IN /\ map' = MapInsert(map, name.s, a.ptr)
                            /\ mem' = IF had /\ okOld THEN deallocate_ptr(a.mem, map[name.s])
                                      ELSE a.mem
                            /\ IF okOld
                               THEN /\ phase' = phase
                                    /\ ret' = [NoRet EXCEPT !.op = "SetEnvironmentVariableW",
                                                 !.name = name, !.value = value, !.val = 1]
                               ELSE Halt("SetEnvironmentVariableW", name, value, "ub")
    /\ UNCHANGED <<derive, machine, cwd, environ>>

\* the strings the block is built from: each payload as read from its base pointer
RECURSIVE EnvBlock(_, _)
EnvBlock(m, ptrs) ==
    IF ptrs = <<>> THEN <<>>
    ELSE FromWideStr(ReadUnits(m, Head(ptrs))) \o <<0>> \o EnvBlock(m, Tail(ptrs))

GetEnvironmentStringsW ==
    /\ phase = "running"
    /\ machine.target = "windows"
    /\ Len(mem) + 1 <= MaxWinAllocs
    /\ LET items == MapValues(map)
           bad == \E i \in 1..Len(items) : ReadUnits(mem, items[i]) = <<-1>>
           a == allocate(mem, Allocation("Runtime", "block", 2,
                                         ToWideStr(EnvBlock(mem, items))))
       IN IF bad
          THEN /\ Halt("GetEnvironmentStringsW", NullStr, NullStr, "ub")
               /\ mem' = mem
          ELSE /\ phase' = phase
               /\ mem' = a.mem
               /\ ret' = [NoRet EXCEPT !.op = "GetEnvironmentStringsW", !.ptr = a.ptr]
    /\ UNCHANGED <<derive, machine, cwd, map, environ>>

\* pointers a Windows guest can pass: null and the blocks it was handed
BlockPtrs == {Null} \cup {[alloc |-> i, off |-> 0] : i \in {j \in 1..Len(mem) : mem[j].site = "block"}}

\* mutant: a failed release is propagated as an error of the interpreted program
FreeEnvironmentStringsW_propagate(env_block_ptr) ==
    /\ phase = "running"
    /\ machine.target = "windows"
    /\ IF can_deallocate(mem, env_block_ptr, "Runtime")
       THEN /\ mem' = deallocate_ptr(mem, env_block_ptr)
            /\ phase' = phase
            /\ ret' = [NoRet EXCEPT !.op = "FreeEnvironmentStringsW", !.ptr = env_block_ptr,
                                    !.val = 1]
       ELSE /\ mem' = mem
            /\ phase' = "halted"
            /\ ret' = [NoRet EXCEPT !.op = "FreeEnvironmentStringsW", !.ptr = env_block_ptr,
                                    !.halt = "ub"]
    /\ UNCHANGED <<derive, machine, cwd, map, environ>>

FreeEnvironmentStringsW(env_block_ptr) ==
    /\ phase = "running"
    /\ machine.target = "windows"
    /\ LET result == can_deallocate(mem, env_block_ptr, "Runtime")
       IN /\ mem' = IF result THEN deallocate_ptr(mem, env_block_ptr) ELSE mem
          /\ ret' = [NoRet EXCEPT !.op = "FreeEnvironmentStringsW", !.ptr = env_block_ptr,
                                  !.val = IF result THEN 1 ELSE 0]
    /\ UNCHANGED <<derive, machine, cwd, map, environ, phase>>

\* reject_in_isolation: whether it returns, instead of failing with the error
\* that stops the interpreter
reject_in_isolation(reject_with) == reject_with /= "Abort"

\* the operation was rejected and the rejection is reported by stopping
Aborted == machine.isolated_op = "Reject" /\ ~reject_in_isolation(machine.reject_with)

\* the result of an operation that isolation rejected
Rejected(op, name, size) ==
    IF Aborted
    THEN /\ phase' = "halted"
         /\ ret' = [NoRet EXCEPT !.op = op, !.name = name, !.size = size, !.halt = "isolation"]
    ELSE /\ phase' = phase
         /\ ret' = [NoRet EXCEPT !.op = op, !.name = name, !.size = size,
                                 !.last_error = "PermissionDenied"]

\* host_ok: whether env::current_dir() of the host succeeds
GetCurrentDirectoryW(size, host_ok) ==
    /\ phase = "running"
    /\ machine.target = "windows"
    /\ IF machine.isolated_op = "Reject"
       THEN Rejected("GetCurrentDirectoryW", NullStr, size)
       ELSE /\ phase' = phase
            /\ IF host_ok
               THEN LET w == write_os_str_to_wide_str(cwd, size)
                    IN ret' = [NoRet EXCEPT !.op = "GetCurrentDirectoryW", !.size = size,
                                 !.val = windows_check_buffer_size(w),
                                 !.wrote = w.success,
                                 !.out = IF w.success THEN w.units ELSE <<>>,
                                 !.host = "read"]
               ELSE ret' = [NoRet EXCEPT !.last_error = "NotFound",
                              !.op = "GetCurrentDirectoryW", !.size = size, !.val = 0,
                              !.host = "read"]
    /\ UNCHANGED <<derive, machine, cwd, map, environ, mem>>

\* the buffer a guest passes to getcwd: memory of the guest, outside the
\* allocations of the shim
GuestBuf == [alloc |-> -1, off |-> 0]

\* write_path_to_c_str: whether the path and its terminator fit in size bytes
write_path_to_c_str(path, size) ==
    LET bytes == ToCStr(path)
    IN [success |-> Len(bytes) <= size, len |-> Len(bytes), bytes |-> bytes]

getcwd(size, host_ok) ==
    /\ phase = "running"
    /\ target_os_is_unix
    /\ IF machine.isolated_op = "Reject"
       THEN Rejected("getcwd", NullStr, size)
       ELSE /\ phase' = phase
            /\ IF host_ok
               THEN LET w == write_path_to_c_str(cwd, size)
                    IN ret' = [NoRet EXCEPT !.op = "getcwd", !.size = size,
                                 !.ptr = IF w.success THEN GuestBuf ELSE Null,
                                 !.wrote = w.success,
                                 !.out = IF w.success THEN w.bytes ELSE <<>>,
                                 !.last_error = IF w.success THEN "" ELSE "ERANGE",
                                 !.host = "read"]
               ELSE ret' = [NoRet EXCEPT !.op = "getcwd", !.size = size,
                              !.last_error = "NotFound", !.host = "read"]
    /\ UNCHANGED <<derive, machine, cwd, map, environ, mem>>

\* the paths a guest passes: null, "/" and "/e-acute"
PathArgs == {NullStr, Str(<<47>>), Str(<<47, 233>>)}

\* chdir and SetCurrentDirectoryW; host_ok: whether env::set_current_dir succeeds
set_current_dir(op, fail, success, path, host_ok) ==
    /\ phase = "running"
    /\ IF path.null
       THEN /\ Halt(op, path, NullStr, "ub")
            /\ cwd' = cwd
       ELSE IF machine.isolated_op = "Reject"
            THEN /\ IF Aborted
                    THEN Rejected(op, path, 0)
                    ELSE /\ phase' = phase
                         /\ ret' = [NoRet EXCEPT !.op = op, !.name = path, !.val = fail,
                                                 !.last_error = "PermissionDenied"]
                 /\ cwd' = cwd
            ELSE /\ phase' = phase
                 /\ cwd' = IF host_ok THEN path.s ELSE cwd
                 /\ ret' = [NoRet EXCEPT !.op = op, !.name = path,
                              !.val = IF host_ok THEN success ELSE fail,
                              !.last_error = IF host_ok THEN "" ELSE "NotFound",
                              !.host = "write"]
    /\ UNCHANGED <<derive, machine, map, environ, mem>>

chdir(path, host_ok) ==
    /\ target_os_is_unix
    /\ set_current_dir("chdir", -1, 0, path, host_ok)

SetCurrentDirectoryW(path, host_ok) ==
    /\ machine.target = "windows"
    /\ set_current_dir("SetCurrentDirectoryW", 0, 1, path, host_ok)

---------------------------------------------------------------------------
(* The derive macros of the stable hash.                                   *)
(*                                                                         *)
(* A field is the sequence of its attributes; an attribute is a path and   *)
(* its nested metas; a nested meta is a path and, for project(..), the     *)
(* paths between its parentheses.  A derive target is a struct, an enum or *)
(* a union with its variants (one for a struct), each a sequence of        *)
(* fields.  derive holds the input of the last expansion, what it emitted, *)
(* and the last value the emitted hash_stable was run on with the          *)
(* operations it performed on the hasher.                                  *)

\* the paths written between the parentheses of project(..): two identifiers
\* and a path of two segments, which is no identifier
Selectors == {"p", "q"}
NoIdent == "none"
get_ident(path) == IF path \in Selectors THEN path ELSE NoIdent

Nested(path, sels) == [path |-> path, sels |-> sels]
Attr(path, nested) == [path |-> path, nested |-> nested]
stable_hasher(nested) == Attr("stable_hasher", nested)

ignore == Nested("ignore", <<>>)
project(sels) == Nested("project", sels)
unknown == Nested("other", <<>>)

\* the attribute lists a field of the model carries
FieldAttrs ==
    { <<>>,
      <<Attr("doc", <<>>)>>,
      <<stable_hasher(<<ignore>>)>>,
      <<stable_hasher(<<project(<<"p">>)>>)>>,
      <<stable_hasher(<<project(<<"q", "p">>)>>)>>,
      <<stable_hasher(<<project(<<"p">>), ignore>>)>>,
      <<stable_hasher(<<project(<<"a::b">>)>>)>>,
      <<stable_hasher(<<>>)>>,
      <<stable_hasher(<<project(<<>>)>>)>>,
      <<stable_hasher(<<unknown>>)>>,
      <<stable_hasher(<<ignore, unknown>>)>>,
      <<stable_hasher(<<ignore>>), stable_hasher(<<>>)>> }

\* mutant: project takes precedence over ignore
Attributes_project_first(a, b) == [ignore |-> a /\ b = NoIdent, project |-> b]

\* struct Attributes
Attributes(a, b) == [ignore |-> a, project |-> b]

\* the closure given to nested.parse_nested_meta for project(..): st is
\* [attrs, any_attr]
RECURSIVE parse_project(_, _)
parse_project(st, sels) ==
    IF sels = <<>> THEN st
    ELSE parse_project(
             [attrs |-> IF st.attrs.project = NoIdent
                        THEN Attributes(st.attrs.ignore, get_ident(Head(sels)))
                        ELSE st.attrs,
              any_attr |-> TRUE],
             Tail(sels))

\* the closure given to attr.parse_nested_meta, over the nested metas in turn
RECURSIVE parse_nested_meta(_, _)
parse_nested_meta(st, nested) ==
    IF nested = <<>> THEN st
    ELSE LET n == Head(nested)
             s1 == IF n.path = "ignore"
                   THEN [attrs |-> Attributes(TRUE, st.attrs.project), any_attr |-> TRUE]
                   ELSE st
             s2 == IF n.path = "project" THEN parse_project(s1, n.sels) ELSE s1
         IN parse_nested_meta(s2, Tail(nested))

\* mutant: an attribute without a recognized key is accepted
any_attr_ignored(st) == FALSE

\* whether the attribute made parse_attributes panic
error_parsing(st) == ~st.any_attr

\* parse_attributes over field.attrs: [attrs, panic]
RECURSIVE parse_attrs(_, _)
parse_attrs(acc, attrs) ==
    IF attrs = <<>> \/ acc.panic THEN acc
    ELSE IF Head(attrs).path /= "stable_hasher" THEN parse_attrs(acc, Tail(attrs))
    ELSE LET st == parse_nested_meta([attrs |-> acc.attrs, any_attr |-> FALSE],
                                     Head(attrs).nested)
         IN parse_attrs([attrs |-> st.attrs, panic |-> error_parsing(st)], Tail(attrs))

parse_attributes(field) ==
    parse_attrs([attrs |-> Attributes(FALSE, NoIdent), panic |-> FALSE], field)

\* mutant: a projected field is hashed whole
body_stmt_whole(field, bi) ==
    IF parse_attributes(field).attrs.ignore THEN <<>>
    ELSE <<[op |-> "field", bi |-> bi, sel |-> NoIdent]>>

\* the statement the closure of hash_stable_body emits for the binding bi
body_stmt(field, bi) ==
    LET attrs == parse_attributes(field).attrs
    IN IF attrs.ignore THEN <<>>
       ELSE IF attrs.project /= NoIdent
            THEN <<[op |-> "project", bi |-> bi, sel |-> attrs.project]>>
            ELSE <<[op |-> "field", bi |-> bi, sel |-> NoIdent]>>

\* mutant: the no-context form looks at project before ignore
no_context_stmt_project_first(field, bi) ==
    LET attrs == parse_attributes(field).attrs
    IN IF attrs.project /= NoIdent
       THEN <<[op |-> "project", bi |-> bi, sel |-> attrs.project]>>
       ELSE IF attrs.ignore THEN <<>>
            ELSE <<[op |-> "field", bi |-> bi, sel |-> NoIdent]>>

\* the statement the closure of hash_stable_no_context_derive emits
no_context_stmt(field, bi) ==
    LET attrs == parse_attributes(field).attrs
    IN IF attrs.ignore THEN <<>>
       ELSE IF attrs.project /= NoIdent
            THEN <<[op |-> "project", bi |-> bi, sel |-> attrs.project]>>
            ELSE <<[op |-> "field", bi |-> bi, sel |-> NoIdent]>>

\* s.each: the match arm of one variant, its bindings in declaration order
RECURSIVE each_binding(_, _, _)
each_binding(no_context, fields, bi) ==
    IF bi > Len(fields) THEN <<>>
    ELSE (IF no_context THEN no_context_stmt(fields[bi], bi) ELSE body_stmt(fields[bi], bi))
             \o each_binding(no_context, fields, bi + 1)

\* s.each: one arm per variant, in declaration order
each(no_context, s) ==
    [v \in 1..Len(s.variants) |-> each_binding(no_context, s.variants[v], 1)]

\* whether parse_attributes panics on a field of s
each_panics(s) ==
    \E v \in 1..Len(s.variants) : \E f \in 1..Len(s.variants[v]) :
        parse_attributes(s.variants[v][f]).panic

hash_stable_body(s) == each(FALSE, s)

DiscriminantStmt == [op |-> "discriminant", bi |-> 0, sel |-> NoIdent]

\* mutant: the discriminant is not hashed
hash_stable_discriminant_none(s) == <<>>

hash_stable_discriminant(s) ==
    IF s.data = "Enum" THEN <<DiscriminantStmt>> ELSE <<>>

\* the discriminant statement of hash_stable_no_context_derive
no_context_discriminant(s) ==
    IF s.data = "Enum" THEN <<DiscriminantStmt>> ELSE <<>>

Panic(message) ==
    [result |-> "panic", message |-> message, bounds |-> "", ctx |-> "",
     discriminant |-> <<>>, body |-> <<>>]

\* s.bound_impl: the implementation of HashStable the macro emits
bound_impl(bounds, ctx, discriminant, body) ==
    [result |-> "impl", message |-> "", bounds |-> bounds, ctx |-> ctx,
     discriminant |-> discriminant, body |-> body]

hash_stable_generic_derive(s) ==
    IF s.data = "Union" THEN Panic("cannot derive on union")
    ELSE IF each_panics(s) THEN Panic("error parsing stable_hasher")
    ELSE bound_impl("Generics", "__CTX: HashStableContext",
                    hash_stable_discriminant(s), hash_stable_body(s))

hash_stable_no_context_derive(s) ==
    IF each_panics(s) THEN Panic("error parsing stable_hasher")
    ELSE IF s.data = "Union" THEN Panic("cannot derive on union")
    ELSE bound_impl("Fields", "__CTX", no_context_discriminant(s), each(TRUE, s))

hash_stable_derive(s) ==
    IF s.data = "Union" THEN Panic("cannot derive on union")
    ELSE IF each_panics(s) THEN Panic("error parsing stable_hasher")
    ELSE bound_impl("Generics", "StableHashingContext<'__ctx>",
                    hash_stable_discriminant(s), hash_stable_body(s))

\* the attribute lists of the fields of a struct after its first
RestAttrs ==
    { <<>>,
      <<stable_hasher(<<ignore>>)>>,
      <<stable_hasher(<<project(<<"p">>)>>)>>,
      <<stable_hasher(<<project(<<>>)>>)>> }

\* the field lists of the structs of the model
StructFields ==
    {<<>>} \cup {<<f>> \o r : f \in FieldAttrs, r \in SeqsUpTo(RestAttrs, MaxFields - 1)}

\* the shapes of the variants of the enums of the model
EnumVariants ==
    { <<>>,
      << <<>> >>,
      << <<stable_hasher(<<ignore>>)>> >>,
      << <<stable_hasher(<<project(<<"p">>)>>)>> >>,
      << <<stable_hasher(<<ignore>>)>>, <<>> >> }

Structure(data, variants) == [data |-> data, variants |-> variants]

\* the derive targets: structs, enums and unions
DeriveTargets ==
    {Structure("Struct", <<fs>>) : fs \in StructFields}
    \cup {Structure("Enum", vs) : vs \in SeqsUpTo(EnumVariants, MaxVariants)}
    \cup {Structure("Union", <<fs>>) : fs \in {<<>>, << <<>> >>, << <<stable_hasher(<<>>)>> >>}}

\* a field's value: what its selectors p and q give
FieldValues == [Selectors -> 0..1]

\* the values of a derive target
Values(s) ==
    UNION {{[variant |-> v, fields |-> fs] :
               fs \in [1..Len(s.variants[v]) -> FieldValues]} : v \in 1..Len(s.variants)}

\* ::std::mem::discriminant(self): a tag of the value's variant
discriminant(value) == value.variant

\* what one emitted statement gives to the hasher
run_stmt(stmt, value) ==
    IF stmt.op = "discriminant"
    THEN [mixed |-> "discriminant", bytes |-> <<discriminant(value)>>]
    ELSE IF stmt.op = "project"
    THEN [mixed |-> "projection", bytes |-> <<value.fields[stmt.bi][stmt.sel]>>]
    ELSE [mixed |-> "field", bytes |-> <<value.fields[stmt.bi]["p"], value.fields[stmt.bi]["q"]>>]

\* the emitted fn hash_stable: #discriminant, then match *self { #body }
hash_stable(impl, value) ==
    [i \in 1..Len(impl.discriminant) |-> run_stmt(impl.discriminant[i], value)]
    \o [i \in 1..Len(impl.body[value.variant]) |->
           run_stmt(impl.body[value.variant][i], value)]

NoValue == [variant |-> 0, fields |-> <<>>]

NoDerive ==
    [form |-> "none", s |-> Structure("Struct", << <<>> >>), out |-> Panic(""),
     ran |-> FALSE, value |-> NoValue, ops |-> <<>>]

\* one expansion of a derive macro on the target s
Expand(form, s, out) ==
    /\ derive.form = "none"
    /\ derive' = [NoDerive EXCEPT !.form = form, !.s = s, !.out = out]
    /\ UNCHANGED <<machine, cwd, map, environ, mem, phase, ret>>

HashStable_Generic(s) == Expand("generic", s, hash_stable_generic_derive(s))

HashStable_NoContext(s) == Expand("no_context", s, hash_stable_no_context_derive(s))

HashStable(s) == Expand("concrete", s, hash_stable_derive(s))

\* the emitted hash_stable is called on a value of the type
CallHashStable(value) ==
    /\ derive.form /= "none"
    /\ derive.out.result = "impl"
    /\ derive' = [derive EXCEPT !.ran = TRUE, !.value = value,
                                !.ops = hash_stable(derive.out, value)]
    /\ UNCHANGED <<machine, cwd, map, environ, mem, phase, ret>>

---------------------------------------------------------------------------
(* The user profile directory. *)

\* check_no_isolation: whether it returns, instead of stopping the interpreter
check_no_isolation == machine.isolated_op = "Allow"

\* the token of the current process
CURRENT_PROCESS_TOKEN == -4

Tokens == {CURRENT_PROCESS_TOKEN, 0}

\* what the host reports as home directory: none or "/e-acute"
HomeDirs == {NullStr, Str(<<47, 233>>)}

\* the size pointer of the guest: null (-1) or a pointer to this value
SizeArgs == {-1} \cup BufSizes

\* home: directories::UserDirs::new() and its home_dir()
GetUserProfileDirectoryW(token, size, home) ==
    /\ phase = "running"
    /\ machine.target = "windows"
    /\ LET call == [NoRet EXCEPT !.op = "GetUserProfileDirectoryW", !.token = token,
                                 !.size = size, !.name = home]
       IN IF ~check_no_isolation
          THEN /\ phase' = "halted"
               /\ ret' = [call EXCEPT !.halt = "isolation"]
          ELSE IF token /= CURRENT_PROCESS_TOKEN
          THEN /\ phase' = "halted"
               /\ ret' = [call EXCEPT !.halt = "unsup"]
          ELSE IF home.null
          THEN /\ phase' = phase
               /\ ret' = [call EXCEPT !.val = 0, !.last_error = "ERROR_BAD_USER_PROFILE"]
          ELSE LET size_avail == IF size = -1 THEN 0 ELSE size
                   w == write_os_str_to_wide_str(home.s, size_avail)
               IN IF size = -1
                  THEN /\ phase' = "halted"
                       /\ ret' = [call EXCEPT !.halt = "ub", !.wrote = w.success,
                                              !.out = IF w.success THEN w.units ELSE <<>>]
                  ELSE /\ phase' = phase
                       /\ ret' = [call EXCEPT
                                    !.wrote = w.success,
                                    !.out = IF w.success THEN w.units ELSE <<>>,
                                    !.size_out = w.len,
                                    !.val = IF w.success THEN 1 ELSE 0,
                                    !.last_error = IF w.success THEN ""
                                                   ELSE "ERROR_INSUFFICIENT_BUFFER"]
    /\ UNCHANGED <<derive, machine, cwd, map, environ, mem>>

---------------------------------------------------------------------------
(* The program. *)

Init ==
    /\ machine \in Machines
    /\ cwd = <<47, 233>>
    /\ map = EmptyMap
    /\ environ = Null
    /\ mem = <<>>
    /\ phase = "new"
    /\ ret = NoRet
    /\ derive = NoDerive

UnixOps ==
    \/ \E n \in NameArgs : getenv(n)
    \/ \E n \in NameArgs, v \in ValueArgs : setenv(n, v)
    \/ \E n \in NameArgs : unsetenv(n)

WindowsOps ==
    \/ \E n \in LookupArgs, k \in BufSizes : GetEnvironmentVariableW(n, k)
    \/ \E n \in NameArgs, v \in ValueArgs : SetEnvironmentVariableW(n, v)
    \/ GetEnvironmentStringsW
    \/ \E p \in BlockPtrs : FreeEnvironmentStringsW(p)

DirectoryOps ==
    \/ \E k \in BufSizes, ok \in BOOLEAN : GetCurrentDirectoryW(k, ok)
    \/ \E k \in BufSizes, ok \in BOOLEAN : getcwd(k, ok)
    \/ \E p \in PathArgs, ok \in BOOLEAN : chdir(p, ok)
    \/ \E p \in PathArgs, ok \in BOOLEAN : SetCurrentDirectoryW(p, ok)
    \/ \E tk \in Tokens, k \in SizeArgs, h \in HomeDirs : GetUserProfileDirectoryW(tk, k, h)

Lifecycle ==
    \/ \E c \in Configs : EnvVarsInit(c)
    \/ cleanup

Next == Lifecycle \/ UnixOps \/ WindowsOps \/ DirectoryOps

Spec == Init /\ [][Next]_vars

\* the environment operations on a Unix target
\* (these operations do not consult the isolation policy: one reject kind)
EnvMachine == machine.reject_with \in {"none", "NoWarning"}
InitUnix == Init /\ machine.target = "linux" /\ EnvMachine
SpecUnix == InitUnix /\ [][Lifecycle \/ UnixOps]_vars

\* the environment operations on a Windows target
InitWindows == Init /\ machine.target = "windows" /\ EnvMachine
SpecWindows == InitWindows /\ [][Lifecycle \/ WindowsOps]_vars

\* init and cleanup alone, on every target
SpecInit == Init /\ [][Lifecycle]_vars

\* the derive macros: one expansion, then calls of the emitted hash_stable
DeriveOps ==
    \/ \E s \in DeriveTargets : HashStable_Generic(s)
    \/ \E s \in DeriveTargets : HashStable_NoContext(s)
    \/ \E s \in DeriveTargets : HashStable(s)
    \/ \E value \in Values(derive.s) : CallHashStable(value)

InitDerive == Init /\ machine = [target |-> "linux", isolated_op |-> "Allow", reject_with |-> "none"]
SpecDerive == InitDerive /\ [][DeriveOps]_vars

\* the working directory operations, under every isolation policy
SpecDirectory == Init /\ [][Lifecycle \/ DirectoryOps]_vars

\* configurations whose names nothing has validated before init: a host entry
\* "=a" and the overrides "" and "a="
UncheckedHostEntries == {<<<<97>>, <<97>>>>, <<<<61, 97>>, <<97>>>>}
UncheckedOverrides == Overrides \cup {<<<<>>, <<97>>>>, <<<<97, 61>>, <<>>>>}

UncheckedConfigs ==
    [communicate : BOOLEAN,
     forwarded_env_vars : SeqsUpTo(ForwardNames, MaxForward),
     env : SeqsUpTo(UncheckedHostEntries, MaxEnv),
     set_env_vars : {s \in SeqsUpTo(UncheckedOverrides, MaxSetEnv) : UniqueNames(s)}]

\* init on such a configuration, and cleanup, on every target
SpecUnchecked == Init /\ [][(\E c \in UncheckedConfigs : EnvVarsInit(c)) \/ cleanup]_vars

---------------------------------------------------------------------------
(* Properties of the Unix environment operations. *)

\* the bytes of s in a C string, without the terminator
CBytes(s) == Flatten([i \in 1..Len(s) |-> Utf8(s[i])])

\* a name argument that setenv and unsetenv must reject
InvalidArg(a) == a.null \/ a.s = <<>> \/ \E i \in 1..Len(a.s) : a.s[i] = 61

\* the map holds, for n, a live payload that encodes n=v
Stored(n, v) ==
    /\ n \in DOMAIN map
    /\ map[n].alloc \in 1..Len(mem)
    /\ map[n].off = 0
    /\ mem[map[n].alloc].live
    /\ mem[map[n].alloc].data = CBytes(n) \o <<61>> \o CBytes(v) \o <<0>>

ClaimNames == {n \in GuestNames : ~InvalidArg(Str(n))}
ClaimValues == GuestValues \cup {<<>>}

\* the step is a call of op on name n that returned val
Called(op, n, val) ==
    ret'.op = op /\ ret'.halt = "" /\ ret'.name = Str(n) /\ ret'.val = val

C1_Step ==
    \A n \in ClaimNames, v \in ClaimValues :
        /\ (Called("setenv", n, 0) /\ ret'.value = Str(v)) => Stored(n, v)'
        /\ (/\ Stored(n, v)
            /\ phase' = "running"
            /\ ~Called("setenv", n, 0)
            /\ ~Called("unsetenv", n, 0)) => Stored(n, v)'
        /\ (Stored(n, v) /\ Called("getenv", n, 0)) =>
               /\ ret'.ptr = [alloc |-> map[n].alloc, off |-> Len(CBytes(n)) + 1]
               /\ ReadUnits(mem', ret'.ptr) = CBytes(v)

\* C1: once setenv(n, v) has returned 0, and until the next successful setenv
\* or unsetenv on n, the payload of n encodes n=v whatever is called on other
\* names, and getenv(n) returns the pointer name-length+1 bytes into that
\* payload, from which the bytes up to the terminator are exactly v.
C1_SetenvThenGetenv == [][C1_Step]_vars

\* getenv("e-acute") returned the value "=e-acute" that a setenv stored, and a
\* later setenv on another name came in between
C1_Witness ==
    /\ ret.op = "getenv"
    /\ ret.name = Str(<<233>>)
    /\ ~ptr_is_null(ret.ptr)
    /\ ReadUnits(mem, ret.ptr) = <<61, 195, 169>>
    /\ \E i \in (ret.ptr.alloc + 1)..Len(mem) : mem[i].site = "payload"

C2_Step ==
    \A n \in GuestNames :
        /\ Called("unsetenv", n, 0) => n \notin DOMAIN map'
        /\ (phase = "running" /\ n \notin DOMAIN map /\ n \in DOMAIN map')
               => Called("setenv", n, 0)
        /\ (n \notin DOMAIN map /\ Called("getenv", n, 0)) => ptr_is_null(ret'.ptr)

\* C2: unsetenv(n) returning 0 leaves n out of the map, only a successful
\* setenv(n, _) puts n back, and getenv(n) returns null while n is out of the
\* map, whatever installed n before.
C2_UnsetenvThenNull == [][C2_Step]_vars

\* getenv("a") returned null after "a", installed by init with the host value
\* "a", was removed
C2_Witness ==
    /\ ret.op = "getenv"
    /\ ret.name = Str(<<97>>)
    /\ ptr_is_null(ret.ptr)
    /\ ret.halt = ""
    /\ \E i \in 1..Len(mem) :
           /\ mem[i].site = "payload"
           /\ ~mem[i].live
           /\ mem[i].data = <<97, 61, 97, 0>>
           /\ i < environ.alloc

\* C3: while a Unix program runs, the environ cell points to a live array of
\* (number of map entries + 1) pointers that ends with null and otherwise holds
\* exactly the map's payload pointers, once each, and every payload is live and
\* starts with its key and '='.
C3_EnvironMatchesMap ==
    (phase = "running" /\ target_os_is_unix) =>
        /\ environ.alloc \in 1..Len(mem)
        /\ mem[environ.alloc].live
        /\ LET p == mem[environ.alloc].data[1]
           IN /\ p.alloc \in 1..Len(mem)
              /\ p.off = 0
              /\ mem[p.alloc].live
              /\ LET arr == mem[p.alloc].data
                     n == Len(arr)
                 IN /\ n = Cardinality(DOMAIN map) + 1
                    /\ arr[n] = Null
                    /\ {arr[i] : i \in 1..(n - 1)} = {map[k] : k \in DOMAIN map}
                    /\ \A i, j \in 1..(n - 1) : arr[i] = arr[j] => i = j
        /\ \A k \in DOMAIN map :
               /\ map[k].alloc \in 1..Len(mem)
               /\ map[k].off = 0
               /\ mem[map[k].alloc].live
               /\ LET d == mem[map[k].alloc].data
                      pre == CBytes(k) \o <<61>>
                  IN Len(d) > Len(pre) /\ SubSeq(d, 1, Len(pre)) = pre

\* a setenv has just rebuilt the array for a map of two entries
C3_Witness ==
    /\ phase = "running"
    /\ target_os_is_unix
    /\ ret.op = "setenv"
    /\ ret.val = 0
    /\ Cardinality(DOMAIN map) = 2
    /\ Len(mem[mem[environ.alloc].data[1].alloc].data) = 3

C4_Step ==
    (ret'.op \in {"setenv", "unsetenv"} /\ InvalidArg(ret'.name)) =>
        /\ ret'.val = -1
        /\ ret'.last_error = "EINVAL"
        /\ ret'.halt = ""
        /\ ret'.cell = <<>>
        /\ phase' = phase
        /\ map' = map
        /\ mem' = mem
        /\ environ' = environ

\* C4: setenv and unsetenv with a null, empty or '='-containing name return -1
\* with EINVAL and change neither the map nor any allocation nor the cell.
C4_InvalidNameRejected == [][C4_Step]_vars

\* setenv("a=", NULL) returned -1
C4_Witness ==
    /\ ret.op = "setenv"
    /\ ret.name = Str(<<97, 61>>)
    /\ ret.value = NullStr
    /\ ret.val = -1
    /\ ret.last_error = "EINVAL"
    /\ Cardinality(DOMAIN map) > 0

\* the step is unsetenv on a valid name that is not in the map
UnsetenvAbsent ==
    /\ ret'.op = "unsetenv"
    /\ ret'.halt = ""
    /\ ~InvalidArg(ret'.name)
    /\ ret'.name.s \notin DOMAIN map

PayloadsUnchanged ==
    \A i \in 1..Len(mem) : mem[i].site = "payload" => mem'[i] = mem[i]

C5_OriginalStep ==
    UnsetenvAbsent =>
        /\ ret'.val = 0
        /\ map' = map
        /\ PayloadsUnchanged
        /\ read_pointer(mem', environ) = read_pointer(mem, environ)
        /\ mem'[read_pointer(mem, environ).alloc] = mem[read_pointer(mem, environ).alloc]

\* C5 as claimed: unsetenv of an absent valid name returns 0 and leaves the map,
\* the payloads and the environ array the cell points to unchanged.
C5_Original == [][C5_OriginalStep]_vars

C5_AmendedStep ==
    UnsetenvAbsent =>
        LET old == read_pointer(mem, environ)
            new == read_pointer(mem', environ)
        IN /\ ret'.val = 0
           /\ map' = map
           /\ PayloadsUnchanged
           /\ environ' = environ
           /\ Len(mem') = Len(mem) + 1
           /\ ~mem'[old.alloc].live
           /\ new = [alloc |-> Len(mem) + 1, off |-> 0]
           /\ mem'[new.alloc].live
           /\ mem'[new.alloc].data = mem[old.alloc].data

\* C5 amended: unsetenv of an absent valid name returns 0 and leaves the map and
\* the payloads unchanged; the environ array is released and the cell is made to
\* point to a newly allocated array with the same content.
C5_UnsetenvAbsent == [][C5_AmendedStep]_vars

\* unsetenv("e-acute") returned 0 and no payload of that name was ever released
C5_Witness ==
    /\ ret.op = "unsetenv"
    /\ ret.name = Str(<<233>>)
    /\ ret.val = 0
    /\ ret.halt = ""
    /\ phase = "running"
    /\ \A i \in 1..Len(mem) :
           mem[i].site = "payload" => (mem[i].live \/ mem[i].data[1] = 97)
    /\ \E i \in 1..Len(mem) : mem[i].site = "payload" /\ mem[i].live

---------------------------------------------------------------------------
(* Properties of the payloads' ownership, of init and of cleanup. *)

\* the base pointers of the live payload allocations
LivePayloads ==
    {[alloc |-> i, off |-> 0] : i \in {j \in 1..Len(mem) : mem[j].site = "payload" /\ mem[j].live}}

\* C6: while the program runs, the live payload allocations are exactly the
\* pointers the map holds.
C6_LivePayloadsAreMapped ==
    phase = "running" => LivePayloads = {map[k] : k \in DOMAIN map}

\* the live payloads the map does not hold
Unmapped == LivePayloads \ {map[k] : k \in DOMAIN map}

\* no operation after init adds a live payload the map does not hold
C6_OperationsReleaseDisplaced ==
    [][(phase = "running" /\ phase' = "running") => Unmapped' = Unmapped]_vars

\* C7: after cleanup every payload and every environ array is released, and
\* the environ cell is still allocated.
C7_CleanupReleasesAll ==
    phase = "cleaned" =>
        \A i \in 1..Len(mem) :
            /\ mem[i].site \in {"payload", "environ"} => ~mem[i].live
            /\ mem[i].site = "cell" => mem[i].live

\* the 16-bit units of s in a wide string, without the terminator
WUnits(s) == Flatten([i \in 1..Len(s) |-> Utf16(s[i])])

\* the content of the payload that encodes n=v on the target
Encoded(n, v) ==
    IF target_os_is_unix THEN CBytes(n) \o <<61>> \o CBytes(v) \o <<0>>
    ELSE WUnits(n) \o <<61>> \o WUnits(v) \o <<0>>

\* the map holds, for n, a live payload with this content
Holds(n, content) ==
    /\ n \in DOMAIN map
    /\ map[n].alloc \in 1..Len(mem)
    /\ map[n].off = 0
    /\ mem[map[n].alloc].live
    /\ mem[map[n].alloc].data = content

AfterInit == ret.op = "init" /\ phase = "running"

\* C8: after init a host entry whose name is not overridden is in the map iff
\* communication is enabled or its name is in the forward list, and then with
\* the value of the last host entry of that name; with communication disabled
\* and an empty forward list only the overrides are in the map.
C8_ForwardedIffAllowed ==
    AfterInit =>
        LET c == ret.config
            overridden == {c.set_env_vars[i][1] : i \in 1..Len(c.set_env_vars)}
            forwarded == {c.forwarded_env_vars[i] : i \in 1..Len(c.forwarded_env_vars)}
        IN /\ \A i \in 1..Len(c.env) :
                  LET name == c.env[i][1]
                      last == CHOOSE j \in 1..Len(c.env) :
                                  /\ c.env[j][1] = name
                                  /\ \A k \in 1..Len(c.env) : c.env[k][1] = name => k <= j
                  IN name \notin overridden =>
                         /\ name \in DOMAIN map <=> (c.communicate \/ name \in forwarded)
                         /\ name \in DOMAIN map => Holds(name, Encoded(name, c.env[last][2]))
           /\ (~c.communicate /\ forwarded = {}) => DOMAIN map = overridden

\* init forwarded "a" by the forward list and left "e-acute" out
C8_Witness ==
    /\ AfterInit
    /\ ~ret.config.communicate
    /\ ret.config.forwarded_env_vars = <<<<97>>>>
    /\ ret.config.env = <<<<<<233>>, <<97>>>>, <<<<97>>, <<>>>>>>
    /\ ret.config.set_env_vars = <<>>
    /\ DOMAIN map = {<<97>>}

---------------------------------------------------------------------------
(* Properties of the Windows getters. *)

\* the units of the value in the wide payload the map holds for n
StoredWide(n) ==
    LET d == mem[map[n].alloc].data
    IN SubSeq(d, Len(WUnits(n)) + 2, Len(d) - 1)

\* the getter's result for a value of these units and the buffer size it got
BufferRule(value) ==
    LET L == Len(value)
    IN /\ ret.halt = ""
       /\ ret.size >= L + 1 => (ret.wrote /\ ret.out = value \o <<0>> /\ ret.val = L)
       /\ ret.size <= L => (~ret.wrote /\ ret.out = <<>> /\ ret.val = L + 1)

GetterHit ==
    /\ ret.op = "GetEnvironmentVariableW"
    /\ ~ret.name.null
    /\ ret.name.s \in DOMAIN map

GetterCwd ==
    /\ ret.op = "GetCurrentDirectoryW"
    /\ machine.isolated_op = "Allow"
    /\ ret.last_error = ""

\* C10: GetEnvironmentVariableW on a hit and GetCurrentDirectoryW when allowed
\* write the value and its terminator and return its length L when the buffer
\* holds at least L+1 characters, and write nothing and return L+1 otherwise.
C10_BufferSizeRule ==
    /\ GetterHit => BufferRule(StoredWide(ret.name.s))
    /\ GetterCwd => BufferRule(WUnits(cwd))

\* the same for the names whose characters take one byte each in the host's
\* representation, and for the directory
C10_SingleByteNames ==
    /\ (GetterHit /\ \A i \in 1..Len(ret.name.s) : ret.name.s[i] < 128)
           => BufferRule(StoredWide(ret.name.s))
    /\ GetterCwd => BufferRule(WUnits(cwd))

---------------------------------------------------------------------------
(* Properties of the Windows setter, the strings block and the directory. *)

\* the step is SetEnvironmentVariableW(n, NULL)
DeleteCalled(n) ==
    /\ phase = "running"
    /\ ret'.op = "SetEnvironmentVariableW"
    /\ ret'.name = Str(n)
    /\ ret'.value = NullStr

C11_Step ==
    \A n \in ClaimNames :
        /\ DeleteCalled(n) =>
               /\ ret'.halt = ""
               /\ ret'.val = 1
               /\ DOMAIN map' = DOMAIN map \ {n}
               /\ Len(mem') = Len(mem)
               /\ n \in DOMAIN map => ~mem'[map[n].alloc].live
               /\ \A k \in DOMAIN map \ {n} :
                      map'[k] = map[k] /\ mem'[map[k].alloc] = mem[map[k].alloc]
        /\ (phase = "running" /\ n \notin DOMAIN map /\ n \in DOMAIN map')
               => (Called("SetEnvironmentVariableW", n, 1) /\ ~ret'.value.null)
        /\ (/\ n \notin DOMAIN map
            /\ ret'.op = "GetEnvironmentVariableW"
            /\ ret'.name = Str(n)) =>
               /\ ret'.halt = ""
               /\ ret'.val = 0
               /\ ~ret'.wrote
               /\ ret'.last_error = "ERROR_ENVVAR_NOT_FOUND"

\* C11: SetEnvironmentVariableW(n, NULL) with a valid name returns TRUE whether
\* or not n is present, takes n out of the map and releases its payload,
\* leaves the other entries alone; only a later SetEnvironmentVariableW(n, v)
\* puts n back, and while n is out GetEnvironmentVariableW(n) returns 0 with
\* ERROR_ENVVAR_NOT_FOUND.
C11_DeleteThenNotFound == [][C11_Step]_vars

\* GetEnvironmentVariableW("a") missed after the payload of "a" was released
\* by a delete, while another entry is still in the map
C11_Witness ==
    /\ phase = "running"
    /\ ret.op = "GetEnvironmentVariableW"
    /\ ret.name = Str(<<97>>)
    /\ ret.last_error = "ERROR_ENVVAR_NOT_FOUND"
    /\ DOMAIN map = {<<233>>}
    /\ \E i \in 1..Len(mem) :
           mem[i].site = "payload" /\ ~mem[i].live /\ mem[i].data[1] = 97

C12_Step ==
    \A a \in NameArgs :
        (/\ phase = "running"
         /\ ret'.op = "SetEnvironmentVariableW"
         /\ ret'.name = a
         /\ InvalidArg(a)) =>
            /\ phase' = "halted"
            /\ ret'.halt = (IF a.null THEN "ub" ELSE "unsup")
            /\ map' = map
            /\ mem' = mem

\* C12: SetEnvironmentVariableW with a null name halts with an undefined
\* behaviour error, with an empty name or a name containing '=' halts as
\* unsupported, whatever the value pointer is, null included, and leaves the
\* map and every allocation unchanged.
C12_InvalidNameHalts == [][C12_Step]_vars

\* SetEnvironmentVariableW("a=", NULL) halted as unsupported while the map held
\* an entry
C12_Witness ==
    /\ phase = "halted"
    /\ ret.op = "SetEnvironmentVariableW"
    /\ ret.name = Str(<<97, 61>>)
    /\ ret.value = NullStr
    /\ ret.halt = "unsup"
    /\ DOMAIN map /= {}

\* the orders in which the names of S can be listed
Orders(S) == {q \in SeqsUpTo(S, Cardinality(S)) : {q[i] : i \in 1..Len(q)} = S /\ Len(q) = Cardinality(S)}

WholePayload(n) == WUnits(n) \o <<61>> \o StoredWide(n)

\* the block that holds, for the names in this order, the value (or the whole
\* payload) of the name and a null unit, and a final null unit
RECURSIVE BlockOf(_, _)
BlockOf(whole, q) ==
    IF q = <<>> THEN <<0>>
    ELSE (IF whole THEN WholePayload(Head(q)) ELSE StoredWide(Head(q)))
             \o <<0>> \o BlockOf(whole, Tail(q))

StringsReturned ==
    /\ ret.op = "GetEnvironmentStringsW"
    /\ ret.halt = ""
    /\ phase = "running"

\* C13: the block GetEnvironmentStringsW returns is freshly allocated and holds,
\* for each map entry in some order, the value portion of its payload and a
\* null unit, then one more null unit.
C13_BlockOfValues ==
    StringsReturned =>
        /\ ret.ptr = [alloc |-> Len(mem), off |-> 0]
        /\ mem[ret.ptr.alloc].live
        /\ \E q \in Orders(DOMAIN map) :
               mem[ret.ptr.alloc].data = BlockOf(FALSE, q)

\* what the block holds instead: each whole payload, name and '=' included, in
\* the map's iteration order, and the same content on a second call
C13_BlockOfPayloads ==
    StringsReturned =>
        /\ ret.ptr = [alloc |-> Len(mem), off |-> 0]
        /\ mem[ret.ptr.alloc].live
        /\ mem[ret.ptr.alloc].data = BlockOf(TRUE, MapKeys(map))

IsBlock(m, i) == i \in 1..Len(m) /\ m[i].site = "block"

\* the step is FreeEnvironmentStringsW on the block i
FreeCalled(i) ==
    /\ phase = "running"
    /\ ret'.op = "FreeEnvironmentStringsW"
    /\ ret'.ptr = [alloc |-> i, off |-> 0]

C14_Step ==
    \A i \in 1..Len(mem) :
        IsBlock(mem, i) =>
            /\ (mem[i].live /\ ~FreeCalled(i)) => mem'[i] = mem[i]
            /\ (mem[i].live /\ FreeCalled(i)) =>
                   /\ ret'.val = 1
                   /\ ret'.halt = ""
                   /\ phase' = "running"
                   /\ map' = map
                   /\ mem' = [mem EXCEPT ![i].live = FALSE]
            /\ (~mem[i].live /\ FreeCalled(i)) =>
                   /\ ret'.val = 0
                   /\ ret'.halt = ""
                   /\ phase' = "running"
                   /\ map' = map
                   /\ mem' = mem

\* C14: a block GetEnvironmentStringsW returned stays allocated and unchanged
\* through every step that is not FreeEnvironmentStringsW on it, cleanup
\* included; the first FreeEnvironmentStringsW on it releases it and only it
\* and returns nonzero; a later one returns zero, does not halt and changes
\* neither the map nor any allocation.
C14_BlockOwnedByGuest == [][C14_Step]_vars

\* a second FreeEnvironmentStringsW on a released block returned zero while the
\* map held an entry
C14_Witness ==
    /\ phase = "running"
    /\ ret.op = "FreeEnvironmentStringsW"
    /\ ret.val = 0
    /\ ret.halt = ""
    /\ IsBlock(mem, ret.ptr.alloc)
    /\ ~mem[ret.ptr.alloc].live
    /\ DOMAIN map /= {}

\* a block is still allocated after cleanup
C14_AfterCleanup ==
    /\ phase = "cleaned"
    /\ \E i \in 1..Len(mem) : IsBlock(mem, i) /\ mem[i].live

---------------------------------------------------------------------------
(* Properties of the working directory operations. *)

DirectoryOpNames == {"getcwd", "chdir", "GetCurrentDirectoryW", "SetCurrentDirectoryW"}

\* the last operation was a working directory operation with readable
\* arguments, under the reject policy
RejectedCall ==
    /\ machine.isolated_op = "Reject"
    /\ ret.op \in DirectoryOpNames
    /\ ret.halt /= "ub"

\* the operation returned its failure value with the permission-denied error,
\* without access to the host's directory and without writing to the buffer
FailureReturned ==
    /\ ret.halt = ""
    /\ phase = "running"
    /\ ret.last_error = "PermissionDenied"
    /\ ret.host = ""
    /\ ~ret.wrote
    /\ ret.out = <<>>
    /\ ptr_is_null(ret.ptr)
    /\ ret.val = (IF ret.op = "chdir" THEN -1 ELSE 0)

\* C15: under the reject policy, whatever the reject kind, getcwd, chdir,
\* GetCurrentDirectoryW and SetCurrentDirectoryW return null, -1, 0 and FALSE
\* with the permission-denied error, without reading or changing the host's
\* working directory and without writing to the guest buffer.
C15_RejectReturnsFailure == RejectedCall => FailureReturned

\* the same for the reject kinds other than Abort
C15_NonAbortKinds ==
    (RejectedCall /\ machine.reject_with /= "Abort") => FailureReturned

\* under the reject policy no step changes the host's working directory
C15_HostDirectoryKept ==
    [][machine.isolated_op = "Reject" => cwd' = cwd]_vars

ProfileCalled == ret.op = "GetUserProfileDirectoryW"

\* what the claim states for the call recorded in ret
ProfileRule ==
    IF ret.token /= CURRENT_PROCESS_TOKEN
    THEN ret.halt /= ""
    ELSE /\ ret.halt = ""
         /\ ret.size_out >= 0
         /\ IF ret.name.null
            THEN ret.val = 0 /\ ret.last_error = "ERROR_BAD_USER_PROFILE" /\ ~ret.wrote
            ELSE LET units == WUnits(ret.name.s) \o <<0>>
                 IN /\ ret.size_out = Len(units)
                    /\ IF Len(units) <= ret.size
                       THEN ret.val = 1 /\ ret.wrote /\ ret.out = units /\ ret.last_error = ""
                       ELSE /\ ret.val = 0 /\ ~ret.wrote /\ ret.out = <<>>
                            /\ ret.last_error = "ERROR_INSUFFICIENT_BUFFER"

\* C16: GetUserProfileDirectoryW with the token -4 always writes the required
\* length, terminator included, back through the size pointer, returns 1 when
\* the home directory fits, 0 with ERROR_INSUFFICIENT_BUFFER when it does not,
\* 0 with ERROR_BAD_USER_PROFILE when the host has no home directory; with
\* another token it halts.
C16_UserProfileDirectory == ProfileCalled => ProfileRule

\* the same, for the calls that pass the isolation gate with a size pointer
\* that is not null, when the host has a home directory
C16_WithHomeDirectory ==
    (ProfileCalled /\ check_no_isolation /\ ret.size /= -1
        /\ (ret.token = CURRENT_PROCESS_TOKEN => ~ret.name.null)) => ProfileRule

\* without a home directory the call fails and writes nothing through size
C16_WithoutHomeDirectory ==
    (ProfileCalled /\ check_no_isolation /\ ret.token = CURRENT_PROCESS_TOKEN
        /\ ret.name.null) =>
        /\ ret.halt = ""
        /\ ret.val = 0
        /\ ret.last_error = "ERROR_BAD_USER_PROFILE"
        /\ ret.size_out = -1

---------------------------------------------------------------------------
(* Properties of the derive macros of the stable hash. *)

\* the nested metas of the stable_hasher attributes of a field, in order
Directives(field) ==
    Flatten([i \in 1..Len(field) |->
                IF field[i].path = "stable_hasher" THEN field[i].nested ELSE <<>>])

\* the field carries the directive ignore
Ignored(field) ==
    \E i \in 1..Len(Directives(field)) : Directives(field)[i].path = "ignore"

\* the identifiers the project directives of the field name, in order
ProjectSels(field) ==
    LET sels == Flatten([i \in 1..Len(Directives(field)) |->
                            IF Directives(field)[i].path = "project"
                            THEN Directives(field)[i].sels ELSE <<>>])
    IN SelectSeq(sels, LAMBDA x : x \in Selectors)

\* what a field of this value must give to the hasher
FieldOps(field, f) ==
    IF Ignored(field) THEN <<>>
    ELSE IF ProjectSels(field) /= <<>>
    THEN <<[mixed |-> "projection", bytes |-> <<f[Head(ProjectSels(field))]>>]>>
    ELSE <<[mixed |-> "field", bytes |-> <<f["p"], f["q"]>>]>>

\* what hash_stable must give to the hasher for a value of s
ExpectedOps(s, value) ==
    (IF s.data = "Enum"
     THEN <<[mixed |-> "discriminant", bytes |-> <<value.variant>>]>> ELSE <<>>)
    \o Flatten([i \in 1..Len(value.fields) |->
                   FieldOps(s.variants[value.variant][i], value.fields[i])])

\* C17: whatever the derive target and its directives, the emitted hash_stable
\* gives the hasher the discriminant first for an enum and no discriminant for
\* a struct, then the fields of the value's variant in declaration order: an
\* ignore field nothing, a project(sel) field its projection by sel, any other
\* field itself.
C17_EmittedSequence ==
    derive.ran => derive.ops = ExpectedOps(derive.s, derive.value)

\* hash_stable ran on the second variant of an enum whose first field is
\* ignored: the discriminant and the second field were hashed
C17_Witness ==
    /\ derive.ran
    /\ derive.s.data = "Enum"
    /\ derive.value.variant = 2
    /\ Len(derive.value.fields) = 2
    /\ Len(derive.ops) = 2
    /\ derive.ops[1].mixed = "discriminant"
    /\ derive.ops[2].mixed = "field"

\* two values of s in the same variant agree on every field without a
\* directive and on the projection of every project field
Agree(s, v, w) ==
    /\ v.variant = w.variant
    /\ \A i \in 1..Len(v.fields) :
           LET field == s.variants[v.variant][i]
           IN IF Ignored(field) THEN TRUE
              ELSE IF ProjectSels(field) /= <<>>
              THEN v.fields[i][Head(ProjectSels(field))] = w.fields[i][Head(ProjectSels(field))]
              ELSE v.fields[i] = w.fields[i]

\* C18: every value that agrees with the hashed one on its fields without a
\* directive and on the projections of its project fields gives the hasher the
\* same sequence, whatever its ignored fields and the rest of its projected
\* fields hold.
C18_IgnoredContentNotHashed ==
    derive.ran =>
        \A w \in Values(derive.s) :
            Agree(derive.s, derive.value, w) => hash_stable(derive.out, w) = derive.ops

\* hash_stable ran on a struct with an ignored field and a projected field,
\* and a value that differs in both fields gives the same sequence
C18_Witness ==
    /\ derive.ran
    /\ derive.s = Structure("Struct", << << <<stable_hasher(<<ignore>>)>>,
                                            <<stable_hasher(<<project(<<"p">>)>>)>> >> >>)
    /\ Len(derive.ops) = 1
    /\ \E w \in Values(derive.s) :
           /\ w.fields[1] /= derive.value.fields[1]
           /\ w.fields[2] /= derive.value.fields[2]
           /\ Agree(derive.s, derive.value, w)

\* C19: a value of an enum in another variant with the same field contents
\* gives the hasher a sequence with another first item, the discriminant, also
\* when all the fields are ignored; the same value gives the same sequence.
C19_VariantsHashDifferently ==
    (derive.ran /\ derive.s.data = "Enum") =>
        \A w \in Values(derive.s) :
            /\ (w.variant /= derive.value.variant /\ w.fields = derive.value.fields) =>
                   /\ hash_stable(derive.out, w) /= derive.ops
                   /\ derive.ops /= <<>>
                   /\ hash_stable(derive.out, w)[1] /= derive.ops[1]
            /\ w = derive.value => hash_stable(derive.out, w) = derive.ops

\* hash_stable ran on a value of an enum whose two variants have one ignored
\* field each
C19_Witness ==
    /\ derive.ran
    /\ derive.s = Structure("Enum", << << <<stable_hasher(<<ignore>>)>> >>,
                                       << <<stable_hasher(<<ignore>>)>> >> >>)
    /\ derive.value.variant = 1
    /\ derive.ops = <<[mixed |-> "discriminant", bytes |-> <<1>>]>>

\* the attribute names a key that is ignore, or project with a selector
Recognized(attr) ==
    \E i \in 1..Len(attr.nested) :
        \/ attr.nested[i].path = "ignore"
        \/ attr.nested[i].path = "project" /\ attr.nested[i].sels /= <<>>

\* a field of s carries a stable_hasher attribute without a recognized key
Unrecognized(s) ==
    \E v \in 1..Len(s.variants) : \E f \in 1..Len(s.variants[v]) :
        \E i \in 1..Len(s.variants[v][f]) :
            /\ s.variants[v][f][i].path = "stable_hasher"
            /\ ~Recognized(s.variants[v][f][i])

\* a field of s carries a stable_hasher attribute
Attributed(s) ==
    \E v \in 1..Len(s.variants) : \E f \in 1..Len(s.variants[v]) :
        \E i \in 1..Len(s.variants[v][f]) : s.variants[v][f][i].path = "stable_hasher"

ParsingFailed ==
    derive.out.result = "panic" /\ derive.out.message = "error parsing stable_hasher"

\* C20: each of the three derive forms fails when a field carries a
\* stable_hasher attribute without a recognized key, an empty stable_hasher()
\* and an empty project() included, with the parsing error unless the target
\* is a union; and none fails with the parsing error when no field carries a
\* stable_hasher attribute.
C20_UnrecognizedAttributeFails ==
    derive.form /= "none" =>
        /\ Unrecognized(derive.s) => derive.out.result = "panic"
        /\ (Unrecognized(derive.s) /\ derive.s.data /= "Union") => ParsingFailed
        /\ ParsingFailed => Attributed(derive.s)

\* in the model the parsing error is raised only for such an attribute
C20_OnlyUnrecognizedFails ==
    (derive.form /= "none" /\ ParsingFailed) => Unrecognized(derive.s)

\* the no-context form failed on a struct whose second field carries
\* stable_hasher(project())
C20_Witness ==
    /\ derive.form = "no_context"
    /\ derive.out.result = "panic"
    /\ derive.out.message = "error parsing stable_hasher"
    /\ derive.s = Structure("Struct", << << <<>>, <<stable_hasher(<<project(<<>>)>>)>> >> >>)

\* the nested meta is no key of the closed set: neither ignore nor project
\* with a selector
UnknownKey(nested) ==
    ~(nested.path = "ignore" \/ (nested.path = "project" /\ nested.sels /= <<>>))

\* a field of s carries a stable_hasher attribute that contains such a key
CarriesUnknownKey(s) ==
    \E v \in 1..Len(s.variants) : \E f \in 1..Len(s.variants[v]) :
        \E i \in 1..Len(s.variants[v][f]) :
            /\ s.variants[v][f][i].path = "stable_hasher"
            /\ \E k \in 1..Len(s.variants[v][f][i].nested) :
                   UnknownKey(s.variants[v][f][i].nested[k])

\* C21: the directive parser rejects unknown nested content: every expansion on
\* a target with a stable_hasher attribute that contains a key other than
\* ignore and project(selector) fails, also when the same attribute contains a
\* recognized key.
C21_UnknownKeyRejected ==
    (derive.form /= "none" /\ CarriesUnknownKey(derive.s)) => derive.out.result = "panic"

\* an unknown key is rejected when no recognized key stands in its attribute
C21_UnknownKeyAloneRejected ==
    (derive.form /= "none" /\ Unrecognized(derive.s)) => derive.out.result = "panic"

\* the expansion on a struct whose field carries stable_hasher(ignore, other)
\* emitted an implementation that hashes nothing
C21_UnknownKeyAccepted ==
    /\ derive.form /= "none"
    /\ derive.s = Structure("Struct", << << <<stable_hasher(<<ignore, unknown>>)>> >> >>)
    /\ derive.out.result = "impl"
    /\ derive.out.body = << <<>> >>

---------------------------------------------------------------------------
(* Properties of the map's keys and of the pointers the guest holds. *)

\* the payload the map holds for k is live and encodes k, '=', a value and the
\* terminator
EncodesKey(k) ==
    /\ map[k].alloc \in 1..Len(mem)
    /\ map[k].off = 0
    /\ mem[map[k].alloc].live
    /\ LET data == mem[map[k].alloc].data
           key == (IF target_os_is_unix THEN CBytes(k) ELSE WUnits(k)) \o <<61>>
       IN /\ Len(data) > Len(key)
          /\ SubSeq(data, 1, Len(key)) = key
          /\ \A i \in 1..Len(data) : data[i] = 0 <=> i = Len(data)

KeysValid == \A k \in DOMAIN map : ValidName(k)

\* C22: from the end of init onward, whatever the configuration, no key of the
\* map is empty, no key contains '=', and the payload of each key encodes the
\* key, '=', the value and the terminator.
C22_KeysValid ==
    phase = "running" => (KeysValid /\ \A k \in DOMAIN map : EncodesKey(k))

\* the payload of each key encodes the key, whatever the configuration
C22_PayloadsEncodeKeys ==
    phase = "running" => \A k \in DOMAIN map : EncodesKey(k)

\* init installed an override with the empty name
C22_EmptyKeyInstalled ==
    /\ AfterInit
    /\ <<>> \in DOMAIN map

\* the kinds of access in a call's accesses to the environ cell
Accesses(rec) == {rec.cell[i] : i \in 1..Len(rec.cell)}

\* the call the record describes is a getenv that looked up the map
Looked(rec) == rec.op = "getenv" /\ rec.halt = ""

\* the call the record describes is a setenv or unsetenv that succeeded
Updated(rec) == rec.op \in {"setenv", "unsetenv"} /\ rec.halt = "" /\ rec.val = 0

\* the call the record describes is a setenv or unsetenv that failed validation
Refused(rec) == rec.op \in {"setenv", "unsetenv"} /\ rec.halt = "" /\ rec.val = -1

\* two calls of two threads that nothing orders conflict on the cell: both
\* access it and one of them writes it
Conflict(r1, r2) ==
    /\ Accesses(r1) /= {}
    /\ Accesses(r2) /= {}
    /\ "W" \in Accesses(r1) \cup Accesses(r2)

\* a call is one step of the interpreter, so two threads' calls follow one
\* another in either order
C23_Step ==
    /\ Looked(ret') =>
           /\ ret'.cell = <<"R">>
           /\ environ' = environ /\ mem'[environ'.alloc].live
    /\ Updated(ret') =>
           /\ "W" \in Accesses(ret')
           /\ environ' = environ /\ mem'[environ'.alloc].live
    /\ Refused(ret') => ret'.cell = <<>>
    /\ ((Looked(ret) /\ Updated(ret')) \/ (Updated(ret) /\ Looked(ret'))) =>
           Conflict(ret, ret')

ValuePtr(n) == [alloc |-> map[n].alloc, off |-> map[n].off + OsStrLen(n) + 1]

\* the step is a successful setenv(n, _) or unsetenv(n), or cleanup
Invalidates(n) ==
    \/ ret'.op \in {"setenv", "unsetenv"} /\ ret'.halt = "" /\ ret'.val = 0 /\ ret'.name = Str(n)
    \/ ret'.op = "cleanup"

\* the array the environ cell points to
EnvironArray == read_pointer(mem, environ)

C24_Step ==
    phase = "running" =>
        /\ \A n \in DOMAIN map :
               /\ mem[map[n].alloc].live
               \* a getenv(n) of this step returns the pointer into that payload
               /\ (Looked(ret') /\ ret'.name = Str(n)) => ret'.ptr = ValuePtr(n)
               /\ IF Invalidates(n)
                  THEN ~mem'[map[n].alloc].live
                  ELSE mem'[map[n].alloc] = mem[map[n].alloc]
        \* an allocation that was released stays released
        /\ \A i \in 1..Len(mem) : ~mem[i].live => ~mem'[i].live
        /\ mem[EnvironArray.alloc].live
        /\ IF Updated(ret') \/ ret'.op = "cleanup"
           THEN /\ ~mem'[EnvironArray.alloc].live
                /\ ret'.op /= "cleanup" => read_pointer(mem', environ').alloc > Len(mem)
           ELSE mem'[EnvironArray.alloc] = mem[EnvironArray.alloc]

\* C24: the pointer getenv(n) returns points into the payload of n, which
\* stays live with the same bytes across every call other than a successful
\* setenv(n, _) or unsetenv(n) and cleanup, and is released by each of these;
\* the array the environ cell points to is released by every successful setenv
\* or unsetenv, on any name and also when the map does not change, and is
\* replaced by a new one.
C24_PointerValidity == [][C24_Step]_vars

\* a setenv on "a" succeeded: the payload of "a" it displaced is released, and
\* an older payload of "e-acute" is still live and mapped
C24_Witness ==
    /\ Updated(ret) /\ ret.op = "setenv" /\ ret.name = Str(<<97>>)
    /\ <<233>> \in DOMAIN map
    /\ mem[map[<<233>>].alloc].live
    /\ \E i \in 1..Len(mem) :
           /\ mem[i].site = "payload"
           /\ ~mem[i].live
           /\ mem[i].data[1] = 97
           /\ map[<<233>>].alloc < i

\* an unsetenv of an absent name succeeded and released the environ array
C24_ArrayReleasedMapUnchanged ==
    /\ Updated(ret) /\ ret.op = "unsetenv"
    /\ \A i \in 1..Len(mem) : mem[i].site = "payload" => mem[i].live
    /\ Cardinality({i \in 1..Len(mem) : mem[i].site = "environ" /\ ~mem[i].live}) = 1
    /\ map /= EmptyMap

\* what the three derive forms emit for s
Forms(s) ==
    <<hash_stable_generic_derive(s), hash_stable_no_context_derive(s), hash_stable_derive(s)>>

\* the form that was expanded emitted what its derive emits
EmittedBy ==
    derive.out = (CASE derive.form = "generic" -> Forms(derive.s)[1]
                    [] derive.form = "no_context" -> Forms(derive.s)[2]
                    [] OTHER -> Forms(derive.s)[3])

\* C25: on every derive target the three derive forms fail together or emit
\* the same discriminant step and the same per-field body, so the emitted
\* hash_stable of each gives the hasher the same sequence on every value; all
\* three fail on a union; and the no-context form emits nothing for a field
\* that carries both ignore and project.
C25_FormsAgree ==
    derive.form /= "none" =>
        LET fs == Forms(derive.s)
        IN /\ EmittedBy
           /\ \A i, j \in 1..3 :
                  /\ fs[i].result = fs[j].result
                  /\ fs[i].discriminant = fs[j].discriminant
                  /\ fs[i].body = fs[j].body
           /\ derive.s.data = "Union" => \A i \in 1..3 : fs[i].result = "panic"
           /\ derive.ran => \A i \in 1..3 : hash_stable(fs[i], derive.value) = derive.ops
           /\ fs[2].result = "impl" =>
                  \A v \in 1..Len(derive.s.variants) : \A f \in 1..Len(derive.s.variants[v]) :
                      Ignored(derive.s.variants[v][f]) =>
                          \A k \in 1..Len(fs[2].body[v]) : fs[2].body[v][k].bi /= f

\* the emitted hash_stable of the no-context form ran on a struct whose first
\* field carries project(p) and ignore and whose second field carries none:
\* only the second field was hashed
C25_Witness ==
    /\ derive.form = "no_context"
    /\ derive.ran
    /\ derive.s = Structure("Struct", << << <<stable_hasher(<<project(<<"p">>), ignore>>)>>, <<>> >> >>)
    /\ Len(derive.ops) = 1
    /\ derive.ops[1].mixed = "field"

\* the three forms fail on a union, the no-context form with the parsing error
\* when a field of the union carries an empty stable_hasher()
C25_UnionRejected ==
    /\ derive.form = "no_context"
    /\ derive.s.data = "Union"
    /\ derive.out.result = "panic"
    /\ derive.out.message = "error parsing stable_hasher"
    /\ hash_stable_derive(derive.s).message = "cannot derive on union"

====
